---- MODULE Spec2Model ----
(***************************************************************************)
(* A model of parts of the goflow engine: the contact name modifier, the   *)
(* run results map, the contact URN list, the call-webhook action, the     *)
(* engine's service factories, the variable resolver, the number           *)
(* conversions, the dict primitive and locales.                            *)
(*                                                                         *)
(* Strings whose content matters are sequences of one-character strings.   *)
(* Each group of operations has its own specification (SpecModifier,       *)
(* SpecResults, SpecURNs, SpecWebhook, SpecResolver, SpecNumbers,          *)
(* SpecDict, SpecLocale); the variables of the other groups stay at their  *)
(* idle values.                                                            *)
(***************************************************************************)
EXTENDS Integers, Sequences, FiniteSets, TLC

VARIABLES
    contactName,     \* flows.Contact.name
    maxValueLength,  \* envs.Environment.MaxValueLength()
    applied,         \* the last two NameModifier.Apply calls, most recent last
    results,         \* flows.Results: map of snakified name -> *Result
    saved,           \* every result handed to Results.Save, in call order
    urns,            \* a contact's URNList
    filtered,        \* the last URNList.WithScheme call (at most one entry)
    services,        \* engine.services: the result each factory returns
    pc,              \* "ready" until the one operation of the behaviour has run
    input,           \* the action's fields and what its collaborators return
    run,             \* flows.Run: its event log, its results, its @webhook
    trace,           \* every effect of Execute, in the order the code makes it
    ret,             \* what Execute returned: "nil", "error" or "panic"
    svcResult,       \* what a services accessor returned (at most one entry)
    classified,      \* a callStatus call and its result (at most one entry)
    fn,              \* the pure function applied in this behaviour ("" before)
    fnArgs,          \* the arguments it was applied to
    fnOut            \* what it returned

modVars == <<contactName, maxValueLength, applied>>
resVars == <<results, saved>>
urnVars == <<urns, filtered>>
whVars == <<services, pc, input, run, trace, ret, svcResult, classified>>
fnVars == <<fn, fnArgs, fnOut>>
vars == <<contactName, maxValueLength, applied, results, saved, urns, filtered,
          services, pc, input, run, trace, ret, svcResult, classified,
          fn, fnArgs, fnOut>>

(***************************************************************************)
(* Bounds                                                                  *)
(***************************************************************************)
MaxNameLen == 2         \* longest contact / modifier name
MaxValueLenBound == 2   \* largest environment maximum value length
MaxResultNameLen == 2   \* longest result name
MaxSaves == 2           \* number of Results.Save calls in a behaviour
MaxURNs == 3            \* longest URN list

SeqsUpTo(S, n) == UNION {[1..k -> S] : k \in 0..n}

(***************************************************************************)
(* flows/modifiers/name.go                                                 *)
(***************************************************************************)
NameChars == {"a", "b"}
Names == SeqsUpTo(NameChars, MaxNameLen)

\* utils.Truncate: the first limit characters of s when s is longer
Truncate(s, limit) ==
    IF Len(s) <= limit THEN s ELSE SubSeq(s, 1, limit)

\* events.NewContactNameChanged
NewContactNameChanged(name) == [type |-> "contact_name_changed", name |-> name]

\* a plausible slip: the event carries the modifier's name, not the stored one
ApplyLogsModifierName(mName, name, maxLen) ==
    IF name # mName
    THEN [name |-> Truncate(mName, maxLen),
          log |-> <<NewContactNameChanged(mName)>>,
          changed |-> TRUE]
    ELSE [name |-> name, log |-> <<>>, changed |-> FALSE]

\* a plausible slip: the name is stored before the comparison decides
ApplyStoresFirst(mName, name, maxLen) ==
    IF name # mName
    THEN [name |-> Truncate(mName, maxLen),
          log |-> <<NewContactNameChanged(Truncate(mName, maxLen))>>,
          changed |-> TRUE]
    ELSE [name |-> Truncate(mName, maxLen), log |-> <<>>, changed |-> FALSE]

\* NameModifier.Apply on a contact named name: the contact's name after the
\* call, the events passed to the sink, and the returned flag
Apply(mName, name, maxLen) ==
    IF name # mName
    THEN LET truncated == Truncate(mName, maxLen)
         IN [name |-> truncated,
             log |-> <<NewContactNameChanged(truncated)>>,
             changed |-> TRUE]
    ELSE [name |-> name, log |-> <<>>, changed |-> FALSE]

KeepLast(calls, call) ==
    IF Len(calls) = 0 THEN <<call>> ELSE <<calls[Len(calls)], call>>

\* one call of NameModifier{Name: mName}.Apply(env, ..., contact, log)
ApplyName(mName) ==
    LET out == Apply(mName, contactName, maxValueLength)
    IN /\ contactName' = out.name
       /\ applied' = KeepLast(applied, [modifier |-> mName,
                                        before |-> contactName,
                                        after |-> out.name,
                                        log |-> out.log,
                                        changed |-> out.changed,
                                        limit |-> maxValueLength])
       /\ UNCHANGED <<maxValueLength, resVars, urnVars, whVars, fnVars>>

(***************************************************************************)
(* flows/results.go                                                        *)
(***************************************************************************)
ResultChars == {"A", "a", " ", "_"}
ResultNames == SeqsUpTo(ResultChars, MaxResultNameLen)

ToLower(c) == IF c = "A" THEN "a" ELSE c

IsWordChar(c) == c \in {"A", "a", "_"}

\* every run of characters that are not letters, digits or '_' becomes one '_'
RECURSIVE ReplaceRuns(_, _)
ReplaceRuns(s, inRun) ==
    IF s = <<>> THEN <<>>
    ELSE IF IsWordChar(Head(s)) THEN <<Head(s)>> \o ReplaceRuns(Tail(s), FALSE)
    ELSE IF inRun THEN ReplaceRuns(Tail(s), TRUE)
    ELSE <<"_">> \o ReplaceRuns(Tail(s), TRUE)

RECURSIVE TrimLeft(_, _)
TrimLeft(s, c) ==
    IF s # <<>> /\ Head(s) = c THEN TrimLeft(Tail(s), c) ELSE s

RECURSIVE TrimRight(_, _)
TrimRight(s, c) ==
    IF s # <<>> /\ s[Len(s)] = c THEN TrimRight(SubSeq(s, 1, Len(s) - 1), c) ELSE s

\* utils.Snakify: the snake-cased form of a name
Snakify(text) ==
    LET lowered == [i \in 1..Len(ReplaceRuns(text, FALSE)) |->
                        ToLower(ReplaceRuns(text, FALSE)[i])]
    IN TrimRight(TrimLeft(lowered, "_"), "_")

\* flows.NewResults
NewResults == [k \in {} |-> [name |-> <<>>, value |-> "", createdOn |-> 0]]

\* a plausible slip: an existing entry is kept (first write wins)
SaveKeepsExisting(r, result) ==
    IF Snakify(result.name) \in DOMAIN r THEN r
    ELSE [k \in DOMAIN r \cup {Snakify(result.name)} |->
            IF k = Snakify(result.name) THEN result ELSE r[k]]

\* Results.Save: r[utils.Snakify(result.Name)] = result
Save(r, result) ==
    [k \in DOMAIN r \cup {Snakify(result.name)} |->
        IF k = Snakify(result.name) THEN result ELSE r[k]]

\* the nil *Result
NilResult == [name |-> <<"nil">>, value |-> "", createdOn |-> -1]

\* Results.Get: r[key], nil when the key is absent
Get(r, key) == IF key \in DOMAIN r THEN r[key] ELSE NilResult

\* one call of Results.Save with a new result named name
SaveResult(name) ==
    /\ Len(saved) < MaxSaves
    /\ LET result == [name |-> name, value |-> "v", createdOn |-> Len(saved) + 1]
       IN /\ results' = Save(results, result)
          /\ saved' = Append(saved, result)
    /\ UNCHANGED <<modVars, urnVars, whVars, fnVars>>

(***************************************************************************)
(* flows/urns.go: URNList                                                  *)
(***************************************************************************)
Schemes == {"tel", "mailto"}
QuerySchemes == Schemes \cup {"twitter"}
Paths == {1, 2}
ContactURNs == [scheme : Schemes, path : Paths]
URNLists == SeqsUpTo(ContactURNs, MaxURNs)

\* the loop of WithScheme over l[i..], appending to matching
RECURSIVE AppendMatching(_, _, _, _)
AppendMatching(l, i, scheme, matching) ==
    IF i > Len(l) THEN matching
    ELSE AppendMatching(l, i + 1, scheme,
            IF l[i].scheme = scheme THEN Append(matching, l[i]) ELSE matching)

\* a plausible slip: matching := l[:0], so the appends overwrite l's array
WithSchemeInPlace(l, scheme) ==
    LET m == AppendMatching(l, 1, scheme, <<>>)
    IN [matching |-> m,
        source |-> [i \in 1..Len(l) |-> IF i <= Len(m) THEN m[i] ELSE l[i]]]

\* URNList.WithScheme: the returned list, and the receiver after the call
\* (matching starts as a nil slice, so append never writes into l's array)
WithScheme(l, scheme) ==
    [matching |-> AppendMatching(l, 1, scheme, <<>>), source |-> l]

\* one call of urns.WithScheme(scheme)
FilterByScheme(scheme) ==
    LET out == WithScheme(urns, scheme)
    IN /\ urns' = out.source
       /\ filtered' = <<[scheme |-> scheme, before |-> urns,
                         matching |-> out.matching]>>
       /\ UNCHANGED <<modVars, resVars, whVars, fnVars>>

(***************************************************************************)
(* flows/engine/services.go                                                *)
(***************************************************************************)
\* a factory is modelled by what it returns: a service (at most one entry,
\* none for nil) and an error text ("" for a nil error)
NoService == <<>>
NoError == ""

\* a plausible slip: an unconfigured webhook factory is a silent no-op
newEmptyServicesSilentWebhook ==
    [email |-> [svc |-> NoService, err |-> "no email service factory configured"],
     webhook |-> [svc |-> NoService, err |-> NoError],
     classification |-> [svc |-> NoService, err |-> "no classification service factory configured"],
     ticket |-> [svc |-> NoService, err |-> "no ticket service factory configured"],
     airtime |-> [svc |-> NoService, err |-> "no airtime service factory configured"]]

\* newEmptyServices: every factory returns nil and its own error
newEmptyServices ==
    [email |-> [svc |-> NoService, err |-> "no email service factory configured"],
     webhook |-> [svc |-> NoService, err |-> "no webhook service factory configured"],
     classification |-> [svc |-> NoService, err |-> "no classification service factory configured"],
     ticket |-> [svc |-> NoService, err |-> "no ticket service factory configured"],
     airtime |-> [svc |-> NoService, err |-> "no airtime service factory configured"]]

\* what an injected WebhookServiceFactory can return
InjectedWebhookFactories ==
    {[svc |-> <<"webhook_service">>, err |-> NoError],
     [svc |-> NoService, err |-> "webhook factory failed"]}

\* services.Email, .Webhook, .Classification, .Ticket, .Airtime
Email(s) == s.email
Webhook(s) == s.webhook
Classification(s) == s.classification
Ticket(s) == s.ticket
Airtime(s) == s.airtime

(***************************************************************************)
(* flows/actions/call_webhook.go                                           *)
(***************************************************************************)
MaxURLRunes == 2048
StatusGone == 410

CallStatusConnectionError == "connection_error"
CallStatusSubscriberGone == "subscriber_gone"
CallStatusSuccess == "success"
CallStatusResponseError == "response_error"

\* a *flows.WebhookCall: its Response is nil (no entry) or has a StatusCode
StatusCodes == {199, 200, 204, 299, 300, 404, 410, 500}
WebhookCalls == {[response |-> <<>>]} \cup {[response |-> <<c>>] : c \in StatusCodes}

\* a plausible slip: the status code is looked at before the transport error
callStatusIgnoresError(call, err, isResthook) ==
    IF call.response = <<>> THEN CallStatusConnectionError
    ELSE IF isResthook /\ call.response[1] = StatusGone THEN CallStatusSubscriberGone
    ELSE IF call.response[1] \div 100 = 2 THEN CallStatusSuccess
    ELSE IF err THEN CallStatusConnectionError
    ELSE CallStatusResponseError

\* callStatus: determines the webhook status from the HTTP status code
callStatus(call, err, isResthook) ==
    IF call.response = <<>> \/ err THEN CallStatusConnectionError
    ELSE IF isResthook /\ call.response[1] = StatusGone THEN CallStatusSubscriberGone
    ELSE IF call.response[1] \div 100 = 2 THEN CallStatusSuccess
    ELSE CallStatusResponseError

\* An evaluated URL is pad white-space characters, n other code points, pad
\* white-space characters again; wide of the n code points take two bytes;
\* parses tells whether url.Parse accepts the trimmed text.
URLRunes == {0, 1, MaxURLRunes - 1, MaxURLRunes, MaxURLRunes + 1}
URLs == {u \in [pad : 0..1, n : URLRunes, wide : 0..1, parses : BOOLEAN] :
            u.wide <= u.n}

\* strings.TrimSpace
TrimSpace(u) == [u EXCEPT !.pad = 0]

\* utf8.RuneCountInString
RuneCountInString(u) == 2 * u.pad + u.n

\* the built-in len of a string: its bytes
ByteLen(u) == 2 * u.pad + u.n + u.wide

\* a plausible slip: the limit is applied to bytes, not code points
isValidURLBytes(u) ==
    IF ByteLen(u) > MaxURLRunes THEN FALSE ELSE u.parses

\* isValidURL
isValidURL(u) ==
    IF RuneCountInString(u) > MaxURLRunes THEN FALSE ELSE u.parses

\* strings.ToUpper on the methods an action can carry
Methods == {"get", "POST", "p st"}
ToUpper(m) == CASE m = "get" -> "GET" [] m = "p st" -> "P ST" [] OTHER -> m

\* http.NewRequest fails when the method is not a valid token
ValidMethod(m) == m \in {"GET", "POST"}

\* the effects of Execute, threaded through the code in order
Effect(kind, detail) == [kind |-> kind, detail |-> detail]

\* logEvent(events.NewError(...)) / logEvent(events.NewErrorf(...))
LogError(st, text) ==
    [st EXCEPT !.events = Append(@, [type |-> "error", detail |-> text]),
               !.trace = Append(@, Effect("event:error", text))]

\* logEvent(events.NewWebhookCalled(call, status, ""))
LogWebhookCalled(st, status) ==
    [st EXCEPT !.events = Append(@, [type |-> "webhook_called", detail |-> status]),
               !.trace = Append(@, Effect("event:webhook_called", status))]

\* a.updateWebhook(run, call): the call becomes the run's @webhook
updateWebhook(st, call) ==
    [st EXCEPT !.webhook = <<call>>,
               !.trace = Append(@, Effect("update_webhook", ""))]

\* a.saveWebhookResult(run, step, name, call, status, logEvent)
saveWebhookResult(st, name, call, status) ==
    [st EXCEPT !.results = Save(@, [name |-> name, value |-> status,
                                    createdOn |-> Len(st.trace)]),
               !.trace = Append(@, Effect("save_result", status))]

Return(st, value) == [st EXCEPT !.ret = value]

\* the request headers: the action's headers with their evaluated values
\* (part_004:132-139), then the Authorization header built from the token
\* read from the redis pool (part_004:141-160; the pool dials "", so the
\* read fails and the token is empty)
RequestHeaders(in) ==
    {<<h.key, h.value>> : h \in in.headers} \cup {<<"Authorization", "Basic ">>}

\* a plausible slip: the result is saved before the webhook-called event
dispatchSavesFirst(in, svcs, st0) ==
    LET resolved == Webhook(svcs)
        st1 == [st0 EXCEPT !.trace = Append(@, Effect("resolve_service", resolved.err))]
    IN IF resolved.err # NoError THEN Return(LogError(st1, resolved.err), "nil")
       ELSE IF resolved.svc = NoService THEN Return(st1, "panic")
       ELSE LET st2 == [st1 EXCEPT !.trace = Append(@, Effect("service_call", ""))]
                st3 == IF in.outcome.err THEN LogError(st2, "transport error") ELSE st2
            IN IF in.outcome.call # <<>>
               THEN LET made == in.outcome.call[1]
                        status == callStatus(made, in.outcome.err, FALSE)
                        st4 == updateWebhook(st3, made)
                        st5 == IF in.resultName # <<>>
                               THEN saveWebhookResult(st4, in.resultName, made, status)
                               ELSE st4
                    IN Return(LogWebhookCalled(st5, status), "nil")
               ELSE Return(st3, "nil")

\* CallWebhookAction.call from the service resolution on (part_004:162-185)
dispatch(in, svcs, st0) ==
    LET resolved == Webhook(svcs)
        st1 == [st0 EXCEPT !.trace = Append(@, Effect("resolve_service", resolved.err))]
    IN IF resolved.err # NoError THEN Return(LogError(st1, resolved.err), "nil")
       ELSE IF resolved.svc = NoService THEN Return(st1, "panic")
       ELSE LET st2 == [st1 EXCEPT !.trace = Append(@, Effect("service_call", ""))]
                st3 == IF in.outcome.err THEN LogError(st2, "transport error") ELSE st2
            IN IF in.outcome.call # <<>>
               THEN LET made == in.outcome.call[1]
                        status == callStatus(made, in.outcome.err, FALSE)
                        st4 == LogWebhookCalled(updateWebhook(st3, made), status)
                    IN Return(IF in.resultName # <<>>
                              THEN saveWebhookResult(st4, in.resultName, made, status)
                              ELSE st4, "nil")
               ELSE Return(st3, "nil")

\* CallWebhookAction.call up to the service resolution (part_004:124-160)
call(in, svcs, url, method, st0) ==
    IF ~ValidMethod(method) THEN Return(st0, "error")
    ELSE LET failing == {h \in in.headers : h.err}
             st1 == IF failing # {} THEN LogError(st0, "template error") ELSE st0
             st2 == [st1 EXCEPT !.req = <<[method |-> method, url |-> url,
                                           headers |-> RequestHeaders(in)]>>,
                                !.trace = Append(@, Effect("redis_get", "access_token"))]
         IN dispatch(in, svcs, st2)

\* a plausible slip: the URL is validated but Execute goes on regardless
ExecuteNoEarlyReturn(in, svcs, st0) ==
    LET st1 == IF in.urlErr THEN LogError(st0, "template error") ELSE st0
        url == TrimSpace(in.url)
        st2 == IF RuneCountInString(url) = 0
               THEN LogError(st1, "webhook URL evaluated to empty string")
               ELSE IF ~isValidURL(url)
               THEN LogError(st1, "webhook URL evaluated to an invalid URL")
               ELSE st1
        st3 == IF in.body # "" /\ in.bodyErr THEN LogError(st2, "template error") ELSE st2
    IN call(in, svcs, url, ToUpper(in.method), st3)

\* CallWebhookAction.Execute
Execute(in, svcs, st0) ==
    LET st1 == IF in.urlErr THEN LogError(st0, "template error") ELSE st0
        url == TrimSpace(in.url)
    IN IF RuneCountInString(url) = 0
       THEN Return(LogError(st1, "webhook URL evaluated to empty string"), "nil")
       ELSE IF ~isValidURL(url)
       THEN Return(LogError(st1, "webhook URL evaluated to an invalid URL"), "nil")
       ELSE LET st2 == IF in.body # "" /\ in.bodyErr
                       THEN LogError(st1, "template error") ELSE st1
            IN call(in, svcs, url, ToUpper(in.method), st2)

\* what the action is configured with and what its collaborators return
HeaderSets == {{}} \cup {{[key |-> "X-Token", value |-> "t", err |-> e]} : e \in BOOLEAN}
WebhookResultNames == {<<>>, <<"A", " ", "a">>}
Outcomes == [call : {<<>>} \cup {<<c>> : c \in WebhookCalls}, err : BOOLEAN]
            \ {[call |-> <<>>, err |-> FALSE]}
Inputs == {in \in [url : URLs, urlErr : BOOLEAN, method : Methods,
                   body : {"", "b"}, bodyErr : BOOLEAN, headers : HeaderSets,
                   resultName : WebhookResultNames, outcome : Outcomes] :
              in.body = "" => ~in.bodyErr}

IdleInput == [url |-> [pad |-> 0, n |-> 0, wide |-> 0, parses |-> FALSE],
              urlErr |-> FALSE, method |-> "get", body |-> "", bodyErr |-> FALSE,
              headers |-> {}, resultName |-> <<>>,
              outcome |-> [call |-> <<>>, err |-> TRUE]]

\* a run before the action: no events, no results, no @webhook
NewRun == [events |-> <<>>, results |-> NewResults, webhook |-> <<>>,
           trace |-> <<>>, ret |-> "", req |-> <<>>]

\* one execution of the call-webhook action
ExecuteAction ==
    /\ pc = "ready"
    /\ \E in \in Inputs :
        LET out == Execute(in, services, NewRun)
        IN /\ input' = in
           /\ run' = [events |-> out.events, results |-> out.results,
                      webhook |-> out.webhook, req |-> out.req]
           /\ trace' = out.trace
           /\ ret' = out.ret
    /\ pc' = "executed"
    /\ UNCHANGED <<services, svcResult, classified, modVars, resVars, urnVars, fnVars>>

\* one call of a services accessor
Resolved(capability, result) ==
    /\ pc = "ready"
    /\ pc' = "resolved"
    /\ svcResult' = <<[capability |-> capability, svc |-> result.svc, err |-> result.err]>>
    /\ UNCHANGED <<services, input, run, trace, ret, classified,
                   modVars, resVars, urnVars, fnVars>>

ResolveEmail == Resolved("email", Email(services))
ResolveWebhook == Resolved("webhook", Webhook(services))
ResolveClassification == Resolved("classification", Classification(services))
ResolveTicket == Resolved("ticket", Ticket(services))
ResolveAirtime == Resolved("airtime", Airtime(services))

\* one call of callStatus
ClassifyCall ==
    /\ pc = "ready"
    /\ pc' = "classified"
    /\ \E c \in WebhookCalls, err \in BOOLEAN, isResthook \in BOOLEAN :
        classified' = <<[call |-> c, err |-> err, isResthook |-> isResthook,
                         status |-> callStatus(c, err, isResthook)]>>
    /\ UNCHANGED <<services, input, run, trace, ret, svcResult,
                   modVars, resVars, urnVars, fnVars>>

(***************************************************************************)
(* utils/misc.go: ResolveVariable and popNextVariable                      *)
(***************************************************************************)
\* A Go value that can sit in the context: its kind, its text (a string's
\* content or an error's message), the type an error names, and for a
\* mapResolver its keys with the values at the same positions, for an Array
\* its items.
GoValue(kind, text, of, keys, items) ==
    [kind |-> kind, text |-> text, of |-> of, keys |-> keys, items |-> items]

GoNil == GoValue("nil", "", "", <<>>, <<>>)
GoString(text) == GoValue("string", text, "", <<>>, <<>>)
\* a value of a type that has none of the four capabilities
GoStruct == GoValue("struct", "", "", <<>>, <<>>)
GoArray(items) == GoValue("array", "", "", <<>>, items)
\* NewMapResolver
NewMapResolver(keys, items) == GoValue("map", "", "", keys, items)
\* fmt.Errorf: the message, the key it names and the type it names
GoError(text, key, of) == GoValue("error", text, of, <<key>>, <<>>)

\* utils.IsNil
IsNil(v) == v.kind = "nil"

\* variable.(Indexable), variable.(Resolvable), variable.(Atomizable)
IsIndexable(v) == v.kind = "array"
IsResolvable(v) == v.kind = "map"
IsAtomizable(v) == v.kind = "map"

\* Lengthable.Length and Indexable.Index of an Array
Length(v) == Len(v.items)
InRange(v, index) == 0 <= index /\ index < Length(v)
Index(v, index) == v.items[index + 1]

\* mapResolver.Resolve
Resolve(v, key) ==
    IF \E i \in 1..Len(v.keys) : v.keys[i] = key
    THEN v.items[CHOOSE i \in 1..Len(v.keys) : v.keys[i] = key]
    ELSE GoError("no key in map", key, "")

\* ToXAtom returns no error for nil, error, string and Array
ToXAtomOk(v) == v.kind \in {"nil", "error", "string", "array"}

\* strconv.Atoi: an optional sign followed by decimal digits
Digits == {"0", "1", "2", "3"}
DigitValue(c) == CASE c = "0" -> 0 [] c = "1" -> 1 [] c = "2" -> 2 [] OTHER -> 3

RECURSIVE DigitsValue(_, _)
DigitsValue(s, acc) ==
    IF s = <<>> THEN acc
    ELSE DigitsValue(Tail(s), 10 * acc + DigitValue(Head(s)))

Atoi(s) ==
    LET signed == s # <<>> /\ Head(s) \in {"-", "+"}
        body == IF signed THEN Tail(s) ELSE s
    IN IF body = <<>> \/ \E i \in 1..Len(body) : body[i] \notin Digits
       THEN [ok |-> FALSE, n |-> 0]
       ELSE [ok |-> TRUE,
             n |-> IF signed /\ Head(s) = "-" THEN 0 - DigitsValue(body, 0)
                   ELSE DigitsValue(body, 0)]

\* strings.Trim(s, "\"")
RECURSIVE TrimQuotesLeft(_)
TrimQuotesLeft(s) ==
    IF s # <<>> /\ Head(s) = "\"" THEN TrimQuotesLeft(Tail(s)) ELSE s

RECURSIVE TrimQuotesRight(_)
TrimQuotesRight(s) ==
    IF s # <<>> /\ s[Len(s)] = "\""
    THEN TrimQuotesRight(SubSeq(s, 1, Len(s) - 1)) ELSE s

TrimQuotes(s) == TrimQuotesRight(TrimQuotesLeft(s))

\* the loop of popNextVariable from byte offset i on: the offsets it sets
RECURSIVE popScan(_, _, _)
popScan(in, i, keyStart) ==
    IF i >= Len(in)
    THEN [keyStart |-> keyStart, keyEnd |-> -1, restStart |-> -1]
    ELSE IF i = 0 /\ in[i + 1] = "[" THEN popScan(in, i + 1, keyStart + 1)
    ELSE IF in[i + 1] = "["
    THEN [keyStart |-> keyStart, keyEnd |-> i, restStart |-> i]
    ELSE IF in[i + 1] \in {"]", "."}
    THEN [keyStart |-> keyStart, keyEnd |-> i, restStart |-> i + 1]
    ELSE popScan(in, i + 1, keyStart)

\* popNextVariable with the rest starting at the delimiter that ended the key
popNextVariableKeepsDelimiter(in) ==
    LET at == popScan(in, 0, 0)
    IN IF at.keyEnd = -1 THEN [key |-> in, rest |-> <<>>]
       ELSE [key |-> TrimQuotes(SubSeq(in, at.keyStart + 1, at.keyEnd)),
             rest |-> SubSeq(in, at.keyEnd + 1, Len(in))]

\* popNextVariable: the next key and the rest of the path
popNextVariable(in) ==
    LET at == popScan(in, 0, 0)
    IN IF at.keyEnd = -1 THEN [key |-> in, rest |-> <<>>]
       ELSE [key |-> TrimQuotes(SubSeq(in, at.keyStart + 1, at.keyEnd)),
             rest |-> SubSeq(in, at.restStart + 1, Len(in))]

\* the keys that the loop of ResolveVariable pops off a path, in order
RECURSIVE Segments(_)
Segments(rest) ==
    IF rest = <<>> THEN <<>>
    ELSE <<popNextVariable(rest).key>> \o Segments(popNextVariable(rest).rest)

\* one iteration of the loop of ResolveVariable: the key, the value it was
\* applied to, what was done ("index", "resolve" or the failure), the index
\* passed to Index, and the value obtained
Step(key, on, how, arg, got) ==
    [key |-> key, on |-> on, how |-> how, arg |-> arg, got |-> got]

Returned(v, steps) == [status |-> "returned", value |-> v, steps |-> steps]
Panicked(steps) == [status |-> "panic", value |-> GoNil, steps |-> steps]

\* the check after the loop: a value that ToXAtom rejects and that is not
\* Atomizable panics
finalCheck(v, steps) ==
    IF ~ToXAtomOk(v) /\ ~IsAtomizable(v) THEN Panicked(steps) ELSE Returned(v, steps)

\* a plausible slip: the upper bound is tested with > instead of >=
indexStepOffByOne(v, key, index, steps) ==
    IF index > Length(v) \/ index < 0 - Length(v)
    THEN [done |-> TRUE,
          out |-> Returned(GoError("index out of range", key, ""),
                           Append(steps, Step(key, v, "range", index, GoNil)))]
    ELSE LET at == IF index < 0 THEN index + Length(v) ELSE index
         IN IF ~InRange(v, at)
            THEN [done |-> TRUE,
                  out |-> Panicked(Append(steps, Step(key, v, "index", at, GoNil)))]
            ELSE [done |-> FALSE,
                  out |-> Returned(Index(v, at),
                                   Append(steps, Step(key, v, "index", at, Index(v, at))))]

\* the indexable branch of the loop (misc.go:168-175); done when the
\* function returns (or the runtime panics) instead of continuing the loop
indexStep(v, key, index, steps) ==
    IF index >= Length(v) \/ index < 0 - Length(v)
    THEN [done |-> TRUE,
          out |-> Returned(GoError("index out of range", key, ""),
                           Append(steps, Step(key, v, "range", index, GoNil)))]
    ELSE LET at == IF index < 0 THEN index + Length(v) ELSE index
         IN IF ~InRange(v, at)
            THEN [done |-> TRUE,
                  out |-> Panicked(Append(steps, Step(key, v, "index", at, GoNil)))]
            ELSE [done |-> FALSE,
                  out |-> Returned(Index(v, at),
                                   Append(steps, Step(key, v, "index", at, Index(v, at))))]

\* a plausible slip: a value that cannot be keyed into aborts
keyStepPanics(v, key, steps) ==
    IF IsResolvable(v)
    THEN LET got == Resolve(v, key)
         IN [done |-> got.kind = "error",
             out |-> Returned(got, Append(steps, Step(key, v, "resolve", 0, got)))]
    ELSE [done |-> TRUE,
          out |-> Panicked(Append(steps, Step(key, v, "type", 0, GoNil)))]

\* the resolver branch of the loop (misc.go:179-192)
keyStep(v, key, steps) ==
    IF IsResolvable(v)
    THEN LET got == Resolve(v, key)
         IN [done |-> got.kind = "error",
             out |-> Returned(got, Append(steps, Step(key, v, "resolve", 0, got)))]
    ELSE [done |-> TRUE,
          out |-> Returned(GoError("can't resolve key of type", key, v.kind),
                           Append(steps, Step(key, v, "type", 0, GoNil)))]

\* the loop of ResolveVariable (misc.go:155-193)
RECURSIVE resolveLoop(_, _, _)
resolveLoop(variable, rest, steps) ==
    IF rest = <<>> THEN finalCheck(variable, steps)
    ELSE LET popped == popNextVariable(rest)
             key == popped.key
             index == Atoi(key)
             step == IF index.ok /\ IsIndexable(variable)
                     THEN indexStep(variable, key, index.n, steps)
                     ELSE keyStep(variable, key, steps)
         IN IF IsNil(variable)
            THEN Returned(GoError("can't resolve key of nil", key, ""),
                          Append(steps, Step(key, variable, "nil", 0, GoNil)))
            ELSE IF step.done THEN step.out
            ELSE resolveLoop(step.out.value, popped.rest, step.out.steps)

\* ResolveVariable
ResolveVariable(variable, key) ==
    IF variable.kind = "error" THEN Returned(variable, <<>>)
    ELSE IF key = <<>> THEN Returned(variable, <<>>)
    ELSE resolveLoop(variable, IF Head(key) = "." THEN Tail(key) ELSE key, <<>>)

\* the keys used in paths and maps
KeyA == <<"a">>
KeyB == <<"b">>
Key0 == <<"0">>
Key1 == <<"1">>
KeyMinus1 == <<"-", "1">>
KeyMinus2 == <<"-", "2">>
KeyDotted == <<"a", ".", "b">>
KeyOpen == <<"a", "[", "b">>
KeyClose == <<"a", "]", "b">>

\* a path is a sequence of accessors: key (first only), .key, [key], ["key"]
PlainKeys == {KeyA, KeyB, Key0, Key1, KeyMinus1, KeyMinus2}
BracketKeys == {Key0, Key1, KeyMinus1, KeyMinus2}
QuotedKeys == {KeyA, KeyDotted, KeyOpen, KeyClose}
Accessors ==
    [form : {"bare", "dot"}, key : PlainKeys]
        \cup [form : {"bracket"}, key : BracketKeys]
        \cup [form : {"quoted"}, key : QuotedKeys]

MaxAccessors == 3   \* most accessors in a path

AccessorPaths ==
    {p \in SeqsUpTo(Accessors, MaxAccessors) :
        \A i \in 2..Len(p) : p[i].form # "bare"}

RenderAccessor(a) ==
    CASE a.form = "bare" -> a.key
      [] a.form = "dot" -> <<".">> \o a.key
      [] a.form = "bracket" -> <<"[">> \o a.key \o <<"]">>
      [] OTHER -> <<"[", "\"">> \o a.key \o <<"\"", "]">>

RECURSIVE RenderPath(_)
RenderPath(p) ==
    IF p = <<>> THEN <<>> ELSE RenderAccessor(Head(p)) \o RenderPath(Tail(p))

\* the values paths are resolved against
InnerMap ==
    NewMapResolver(<<KeyA, KeyB, KeyDotted, KeyOpen, KeyClose, Key0>>,
                   <<GoString("x"), GoNil, GoString("dotted"), GoString("open"),
                     GoString("close"), GoStruct>>)
PairArray == GoArray(<<InnerMap, GoString("y")>>)
SingleArray == GoArray(<<GoArray(<<GoString("z"), InnerMap>>)>>)
OuterMap ==
    NewMapResolver(<<KeyA, KeyB, Key0, Key1, KeyDotted>>,
                   <<PairArray, InnerMap, GoString("zero"),
                     GoError("stored error", <<>>, ""), SingleArray>>)
Roots == {OuterMap, PairArray, SingleArray, InnerMap, GoArray(<<>>), GoNil,
          GoString("s"), GoStruct, GoError("root error", <<>>, "")}

\* one call of popNextVariable, and the keys the loop pops after it
PopNext ==
    /\ fn = "ready"
    /\ \E p \in AccessorPaths :
        /\ fnArgs' = <<[root |-> GoNil, path |-> p, text |-> RenderPath(p)]>>
        /\ fnOut' = <<[key |-> popNextVariable(RenderPath(p)).key,
                       rest |-> popNextVariable(RenderPath(p)).rest,
                       segments |-> Segments(RenderPath(p))]>>
    /\ fn' = "popNextVariable"
    /\ UNCHANGED <<modVars, resVars, urnVars, whVars>>

\* one call of ResolveVariable
ResolveCall ==
    /\ fn = "ready"
    /\ \E root \in Roots, p \in AccessorPaths :
        /\ fnArgs' = <<[root |-> root, path |-> p, text |-> RenderPath(p)]>>
        /\ fnOut' = <<ResolveVariable(root, RenderPath(p))>>
    /\ fn' = "ResolveVariable"
    /\ UNCHANGED <<modVars, resVars, urnVars, whVars>>

\* the segment loop of ResolveVariable on arbitrary path strings
MaxPathLen == 4        \* longest path string handed to the segment loop
PathChars == {"[", "]", ".", "a", "\""}
PathStrings == SeqsUpTo(PathChars, MaxPathLen)

\* one iteration of the loop: pop the next key off the rest
PopStep ==
    /\ fn = "loop"
    /\ fnArgs[1].rest # <<>>
    /\ fnOut' = <<[in |-> fnArgs[1].rest,
                   key |-> popNextVariable(fnArgs[1].rest).key,
                   rest |-> popNextVariable(fnArgs[1].rest).rest,
                   keyStart |-> popScan(fnArgs[1].rest, 0, 0).keyStart,
                   keyEnd |-> popScan(fnArgs[1].rest, 0, 0).keyEnd,
                   restStart |-> popScan(fnArgs[1].rest, 0, 0).restStart]>>
    /\ fnArgs' = <<[fnArgs[1] EXCEPT
                       !.rest = popNextVariable(fnArgs[1].rest).rest]>>
    /\ fn' = "loop"
    /\ UNCHANGED <<modVars, resVars, urnVars, whVars>>

\* the loop ends once the rest is empty
LoopExit ==
    /\ fn = "loop"
    /\ fnArgs[1].rest = <<>>
    /\ fn' = "done"
    /\ UNCHANGED <<fnArgs, fnOut, modVars, resVars, urnVars, whVars>>

(***************************************************************************)
(* excellent/types: XNumber, ToXNumber and ToInteger                       *)
(***************************************************************************)
MaxTextLen == 3        \* longest text handed to a conversion

\* a decimal.Decimal: sign, decimal digits of the coefficient, exponent
Decimal(neg, digits, exp) == [neg |-> neg, digits |-> digits, exp |-> exp]
DecimalDigits == <<"0", "1", "2", "3", "4", "5", "6", "7", "8", "9">>
DecDigit(c) == (CHOOSE i \in 1..Len(DecimalDigits) : DecimalDigits[i] = c) - 1
IsDecDigit(c) == \E i \in 1..Len(DecimalDigits) : DecimalDigits[i] = c

RECURSIVE StripZeros(_)
StripZeros(ds) ==
    IF Len(ds) > 1 /\ Head(ds) = "0" THEN StripZeros(Tail(ds)) ELSE ds

\* decimal.Zero is New(0, 1)
DecimalZero == Decimal(FALSE, <<"0">>, 1)

\* an XValue: its kind, its native decimal (numbers), its text (texts and
\* error messages)
XValue(kind, num, text) == [kind |-> kind, num |-> num, text |-> text]
XNil == XValue("nil", DecimalZero, <<>>)
NewXNumber(value) == XValue("number", value, <<>>)
NewXText(value) == XValue("text", DecimalZero, value)
NewXErrorf(message) == XValue("error", DecimalZero, <<message>>)
XNumberZero == NewXNumber(DecimalZero)
XIsNil(x) == x.kind = "nil"

\* decimal.NewFromString on a text without an exponent: an optional sign,
\* digits and at most one '.'; the digits after the '.' set the exponent
NewFromString(value) ==
    LET dots == {i \in 1..Len(value) : value[i] = "."}
        dot == CHOOSE i \in dots : TRUE
        intString == IF dots = {} THEN value
                     ELSE SubSeq(value, 1, dot - 1)
                              \o SubSeq(value, dot + 1, Len(value))
        exp == IF dots = {} THEN 0 ELSE 0 - (Len(value) - dot)
        signed == intString # <<>> /\ Head(intString) \in {"-", "+"}
        body == IF signed THEN Tail(intString) ELSE intString
        ok == /\ Cardinality(dots) <= 1
              /\ body # <<>>
              /\ \A i \in 1..Len(body) : IsDecDigit(body[i])
    IN  IF ok
        THEN [ok |-> TRUE,
              num |-> Decimal(Head(intString) = "-"
                                  /\ StripZeros(body) # <<"0">>,
                              StripZeros(body), exp)]
        ELSE [ok |-> FALSE, num |-> Decimal(FALSE, <<"0">>, 0)]

\* ToXNumber without the check of the parse error
ToXNumberIgnoresParseError(x) ==
    IF ~XIsNil(x) /\ x.kind = "error"
    THEN [num |-> XNumberZero, err |-> <<x>>]
    ELSE IF ~XIsNil(x) /\ x.kind = "number"
    THEN [num |-> x, err |-> <<>>]
    ELSE IF ~XIsNil(x) /\ x.kind = "text"
    THEN [num |-> NewXNumber(NewFromString(x.text).num), err |-> <<>>]
    ELSE [num |-> XNumberZero,
          err |-> <<NewXErrorf("unable to convert to a number")>>]

ToXNumber(x) ==
    IF ~XIsNil(x) /\ x.kind = "error"
    THEN [num |-> XNumberZero, err |-> <<x>>]
    ELSE IF ~XIsNil(x) /\ x.kind = "number"
    THEN [num |-> x, err |-> <<>>]
    ELSE IF ~XIsNil(x) /\ x.kind = "text" /\ NewFromString(x.text).ok
    THEN [num |-> NewXNumber(NewFromString(x.text).num), err |-> <<>>]
    ELSE [num |-> XNumberZero,
          err |-> <<NewXErrorf("unable to convert to a number")>>]

\* a 64-bit word is four 16-bit limbs, least significant first;
\* limbs * m + carry, modulo 2^64
RECURSIVE MulAdd(_, _, _)
MulAdd(limbs, m, carry) ==
    IF limbs = <<>> THEN <<>>
    ELSE LET t == Head(limbs) * m + carry
         IN  <<t % (2^16)>> \o MulAdd(Tail(limbs), m, t \div (2^16))

\* the low 64 bits of the magnitude written by the digits
RECURSIVE Low64(_, _)
Low64(ds, acc) ==
    IF ds = <<>> THEN acc
    ELSE Low64(Tail(ds), MulAdd(acc, 10, DecDigit(Head(ds))))

\* two's complement negation of a 64-bit word
Negate64(limbs) == MulAdd([i \in 1..Len(limbs) |-> 2^16 - 1 - limbs[i]], 1, 1)

\* big.Int.Int64: the low 64 bits of the magnitude as an int64, negated
\* for a negative number
Int64(neg, ds) ==
    IF neg THEN Negate64(Low64(ds, <<0, 0, 0, 0>>)) ELSE Low64(ds, <<0, 0, 0, 0>>)

\* Decimal.rescale(0): the coefficient at exponent 0, truncated toward zero
rescale(d) ==
    LET ds == IF d.exp >= 0 THEN d.digits \o [i \in 1..d.exp |-> "0"]
              ELSE IF 0 - d.exp >= Len(d.digits) THEN <<"0">>
              ELSE SubSeq(d.digits, 1, Len(d.digits) + d.exp)
    IN  Decimal(d.neg /\ StripZeros(ds) # <<"0">>, StripZeros(ds), 0)

\* Decimal.IntPart, an int64
IntPart(d) == Int64(rescale(d).neg, rescale(d).digits)

\* comparisons of an int64 with math.MinInt32 and math.MaxInt32
IsNegative64(w) == w[4] >= 2^15
LessThanMinInt32(w) ==
    IsNegative64(w) /\ ~(w[4] = 2^16 - 1 /\ w[3] = 2^16 - 1 /\ w[2] >= 2^15)
GreaterThanMaxInt32(w) ==
    ~IsNegative64(w) /\ ~(w[4] = 0 /\ w[3] = 0 /\ w[2] < 2^15)

\* int(intPart) for an int64 within the 32-bit range
IntOf(w) ==
    IF IsNegative64(w) THEN (w[2] - 2^16) * (2^16) + w[1]
    ELSE w[2] * (2^16) + w[1]

ToInteger(x) ==
    IF ToXNumber(x).err # <<>>
    THEN [int |-> 0, err |-> ToXNumber(x).err]
    ELSE LET intPart == IntPart(ToXNumber(x).num.num)
         IN  IF LessThanMinInt32(intPart) \/ GreaterThanMaxInt32(intPart)
             THEN [int |-> 0,
                   err |-> <<NewXErrorf("number value is out of range for an integer")>>]
             ELSE [int |-> IntOf(intPart), err |-> <<>>]

\* the values handed to the conversions
Decimals ==
    {DecimalZero,
     \* 5
     Decimal(FALSE, <<"5">>, 0),
     \* -5
     Decimal(TRUE, <<"5">>, 0),
     \* 1.9
     Decimal(FALSE, <<"1", "9">>, -1),
     \* -1.9
     Decimal(TRUE, <<"1", "9">>, -1),
     \* 0.005
     Decimal(FALSE, <<"5">>, -3),
     \* 2^31 - 1
     Decimal(FALSE,
             <<"2", "1", "4", "7", "4", "8", "3", "6", "4", "7">>, 0),
     \* 2^31 - 1 + 0.9
     Decimal(FALSE,
             <<"2", "1", "4", "7", "4", "8", "3", "6", "4", "7", "9">>, -1),
     \* 2^31
     Decimal(FALSE,
             <<"2", "1", "4", "7", "4", "8", "3", "6", "4", "8">>, 0),
     \* -2^31
     Decimal(TRUE,
             <<"2", "1", "4", "7", "4", "8", "3", "6", "4", "8">>, 0),
     \* -2^31 - 1
     Decimal(TRUE,
             <<"2", "1", "4", "7", "4", "8", "3", "6", "4", "9">>, 0),
     \* 12345678901
     Decimal(FALSE,
             <<"1", "2", "3", "4", "5", "6", "7", "8", "9", "0", "1">>, 0),
     \* 2^63
     Decimal(FALSE,
             <<"9", "2", "2", "3", "3", "7", "2", "0", "3", "6", "8", "5", "4", "7", "7", "5", "8", "0", "8">>, 0),
     \* 2^64 - 1
     Decimal(FALSE,
             <<"1", "8", "4", "4", "6", "7", "4", "4", "0", "7", "3", "7", "0", "9", "5", "5", "1", "6", "1", "5">>, 0),
     \* 2^64 + 5
     Decimal(FALSE,
             <<"1", "8", "4", "4", "6", "7", "4", "4", "0", "7", "3", "7", "0", "9", "5", "5", "1", "6", "2", "1">>, 0),
     \* -(2^64 + 5)
     Decimal(TRUE,
             <<"1", "8", "4", "4", "6", "7", "4", "4", "0", "7", "3", "7", "0", "9", "5", "5", "1", "6", "2", "1">>, 0),
     \* 2^64 + 2^31
     Decimal(FALSE,
             <<"1", "8", "4", "4", "6", "7", "4", "4", "0", "7", "5", "8", "5", "7", "0", "3", "5", "2", "6", "4">>, 0),
     \* 10^20
     Decimal(FALSE, <<"1">>, 20)}
TextChars == {"0", "1", "-", ".", "a"}
Texts == SeqsUpTo(TextChars, MaxTextLen)
XValues ==
    {NewXNumber(d) : d \in Decimals} \cup {NewXText(t) : t \in Texts}
        \cup {XNil, NewXErrorf("division by zero")}
        \cup {XValue(kind, DecimalZero, <<>>) :
                 kind \in {"boolean", "datetime", "array", "dict"}}

ToXNumberCall ==
    /\ fn = "ready"
    /\ \E x \in XValues :
        /\ fnArgs' = <<x>>
        /\ fnOut' = <<ToXNumber(x)>>
    /\ fn' = "ToXNumber"
    /\ UNCHANGED <<modVars, resVars, urnVars, whVars>>

ToIntegerCall ==
    /\ fn = "ready"
    /\ \E x \in XValues :
        /\ fnArgs' = <<x>>
        /\ fnOut' = <<ToInteger(x)>>
    /\ fn' = "ToInteger"
    /\ UNCHANGED <<modVars, resVars, urnVars, whVars>>

(***************************************************************************)
(* excellent/types: xdict                                                  *)
(***************************************************************************)
MaxPuts == 3           \* number of Put calls on one dict

\* Decimal.String
DecimalString(d) ==
    LET sign == IF d.neg THEN <<"-">> ELSE <<>>
        frac == 0 - d.exp
        padded == [i \in 1..(frac + 1 - Len(d.digits)) |-> "0"] \o d.digits
    IN  IF d.exp >= 0
        THEN sign \o StripZeros(d.digits \o [i \in 1..d.exp |-> "0"])
        ELSE sign \o SubSeq(padded, 1, Len(padded) - frac) \o <<".">>
                 \o SubSeq(padded, Len(padded) - frac + 1, Len(padded))

\* types.ToXText: the text of a value, or the error the value is
ToXText(x) ==
    IF XIsNil(x) THEN [text |-> <<>>, err |-> <<>>]
    ELSE IF x.kind = "error" THEN [text |-> <<>>, err |-> <<x>>]
    ELSE IF x.kind = "number"
    THEN [text |-> DecimalString(x.num), err |-> <<>>]
    ELSE [text |-> x.text, err |-> <<>>]

\* XError.ToXText: the error's message as text
ErrorToXText(xerr) == xerr.text

\* the byte of a character of a key
ByteOf(c) == CASE c = "B" -> 66 [] c = "a" -> 97 [] OTHER -> 98

\* Go's < on strings: byte-wise lexicographic
RECURSIVE StringLess(_, _)
StringLess(a, b) ==
    IF b = <<>> THEN FALSE
    ELSE IF a = <<>> THEN TRUE
    ELSE IF Head(a) = Head(b) THEN StringLess(Tail(a), Tail(b))
    ELSE ByteOf(Head(a)) < ByteOf(Head(b))

RECURSIVE InsertString(_, _)
InsertString(sorted, k) ==
    IF sorted = <<>> THEN <<k>>
    ELSE IF StringLess(k, Head(sorted)) THEN <<k>> \o sorted
    ELSE <<Head(sorted)>> \o InsertString(Tail(sorted), k)

\* sort.Strings
RECURSIVE SortStrings(_)
SortStrings(keys) ==
    IF keys = <<>> THEN <<>>
    ELSE InsertString(SortStrings(Tail(keys)), Head(keys))

\* strings.Join
RECURSIVE Join(_, _)
Join(parts, sep) ==
    IF parts = <<>> THEN <<>>
    ELSE IF Len(parts) = 1 THEN Head(parts)
    ELSE Head(parts) \o sep \o Join(Tail(parts), sep)

NewEmptyXDict == [k \in {} |-> XNil]
Put(values, key, value) ==
    [k \in DOMAIN values \cup {key} |-> IF k = key THEN value ELSE values[k]]
XDictLength(values) == Cardinality(DOMAIN values)

\* the orders in which a range over the map can yield its keys
KeyOrders(values) ==
    {s \in [1..XDictLength(values) -> DOMAIN values] :
        \A i, j \in DOMAIN s : i # j => s[i] # s[j]}

\* xdict.Keys: the keys in the order the map yields them
Keys(values, iteration) == [i \in 1..XDictLength(values) |-> iteration[i]]

\* the pairs of xdict.ToXText for a list of keys
Pairs(values, keys) ==
    [i \in 1..Len(keys) |->
        keys[i] \o <<": ">>
            \o (IF ToXText(values[keys[i]]).err # <<>>
                THEN ErrorToXText(ToXText(values[keys[i]]).err[1])
                ELSE ToXText(values[keys[i]]).text)]

\* xdict.ToXText without the sort of the keys
xdictToXTextUnsorted(values, iteration) ==
    <<"{">> \o Join(Pairs(values, Keys(values, iteration)), <<", ">>)
        \o <<"}">>

xdictToXText(values, iteration) ==
    <<"{">> \o Join(Pairs(values, SortStrings(Keys(values, iteration))),
                    <<", ">>)
        \o <<"}">>

DictKeys == {<<"a">>, <<"b">>, <<"a", "b">>, <<"B">>}
DictValues == {NewXText(<<"x">>), NewXNumber(Decimal(FALSE, <<"1">>, 0)),
               NewXNumber(Decimal(FALSE, <<"2">>, 0)), NewXErrorf("boom")}

\* one call of Put on the dict
PutCall ==
    /\ fn \in {"ready", "Put", "xdict.ToXText"}
    /\ fnArgs[1].puts < MaxPuts
    /\ \E key \in DictKeys, value \in DictValues :
        fnArgs' = <<[values |-> Put(fnArgs[1].values, key, value),
                     puts |-> fnArgs[1].puts + 1,
                     iteration |-> <<>>]>>
    /\ fnOut' = <<>>
    /\ fn' = "Put"
    /\ UNCHANGED <<modVars, resVars, urnVars, whVars>>

\* one call of xdict.ToXText
XDictToXTextCall ==
    /\ fn \in {"ready", "Put", "xdict.ToXText"}
    /\ \E iteration \in KeyOrders(fnArgs[1].values) :
        /\ fnArgs' = <<[fnArgs[1] EXCEPT !.iteration = iteration]>>
        /\ fnOut' = <<xdictToXText(fnArgs[1].values, iteration)>>
    /\ fn' = "xdict.ToXText"
    /\ UNCHANGED <<modVars, resVars, urnVars, whVars>>

(***************************************************************************)
(* envs: Locale                                                            *)
(***************************************************************************)
NilLocale == <<>>
NilLanguage == <<>>
NilCountry == <<>>

\* NewLocale without the check of the language
NewLocaleKeepsCountry(l, c) ==
    IF c = NilCountry THEN l ELSE l \o <<"-">> \o c

NewLocale(l, c) ==
    IF l = NilLanguage THEN NilLocale
    ELSE IF c = NilCountry THEN l
    ELSE l \o <<"-">> \o c

\* Locale.ToParts: the locale split at its first '-'
ToParts(locale) ==
    LET dashes == {i \in 1..Len(locale) : locale[i] = "-"}
        dash == CHOOSE i \in dashes : \A j \in dashes : i <= j
    IN  IF dashes = {}
        THEN [language |-> locale, country |-> NilCountry]
        ELSE [language |-> SubSeq(locale, 1, dash - 1),
              country |-> SubSeq(locale, dash + 1, Len(locale))]

\* 3-letter language codes and 2-letter country codes
Languages == {NilLanguage} \cup [1..3 -> {"e", "n", "g"}]
Countries == {NilCountry} \cup [1..2 -> {"U", "S"}]
Locales == {NewLocale(l, c) : l \in Languages, c \in Countries}

NewLocaleCall ==
    /\ fn = "ready"
    /\ \E l \in Languages, c \in Countries :
        /\ fnArgs' = <<[language |-> l, country |-> c]>>
        /\ fnOut' = <<[locale |-> NewLocale(l, c),
                       parts |-> ToParts(NewLocale(l, c))]>>
    /\ fn' = "NewLocale"
    /\ UNCHANGED <<modVars, resVars, urnVars, whVars>>

ToPartsCall ==
    /\ fn = "ready"
    /\ \E locale \in Locales :
        /\ fnArgs' = <<locale>>
        /\ fnOut' = <<ToParts(locale)>>
    /\ fn' = "ToParts"
    /\ UNCHANGED <<modVars, resVars, urnVars, whVars>>

(***************************************************************************)
(* Specifications                                                          *)
(***************************************************************************)
IdleModifier == contactName = <<>> /\ maxValueLength = 0 /\ applied = <<>>
IdleResults == results = NewResults /\ saved = <<>>
IdleURNs == urns = <<>> /\ filtered = <<>>
IdleRun == [events |-> <<>>, results |-> NewResults, webhook |-> <<>>, req |-> <<>>]
IdleWebhook ==
    /\ services = newEmptyServices /\ pc = "idle" /\ input = IdleInput
    /\ run = IdleRun /\ trace = <<>> /\ ret = ""
    /\ svcResult = <<>> /\ classified = <<>>

IdleFn == fn = "idle" /\ fnArgs = <<>> /\ fnOut = <<>>

InitModifier ==
    /\ contactName \in Names
    /\ maxValueLength \in 1..MaxValueLenBound
    /\ applied = <<>>
    /\ IdleResults /\ IdleURNs /\ IdleWebhook /\ IdleFn

NextModifier == \E mName \in Names : ApplyName(mName)

SpecModifier == InitModifier /\ [][NextModifier]_vars

InitResults ==
    /\ results = NewResults
    /\ saved = <<>>
    /\ IdleModifier /\ IdleURNs /\ IdleWebhook /\ IdleFn

NextResults == \E name \in ResultNames : SaveResult(name)

SpecResults == InitResults /\ [][NextResults]_vars

InitURNs ==
    /\ urns \in URNLists
    /\ filtered = <<>>
    /\ IdleModifier /\ IdleResults /\ IdleWebhook /\ IdleFn

NextURNs == \E scheme \in QuerySchemes : FilterByScheme(scheme)

SpecURNs == InitURNs /\ [][NextURNs]_vars

InitWebhook ==
    /\ services \in {newEmptyServices}
            \cup {[newEmptyServices EXCEPT !.webhook = f] : f \in InjectedWebhookFactories}
    /\ pc = "ready"
    /\ input = IdleInput
    /\ run = IdleRun
    /\ trace = <<>>
    /\ ret = ""
    /\ svcResult = <<>>
    /\ classified = <<>>
    /\ IdleModifier /\ IdleResults /\ IdleURNs /\ IdleFn

NextWebhook ==
    \/ ExecuteAction
    \/ ResolveEmail
    \/ ResolveWebhook
    \/ ResolveClassification
    \/ ResolveTicket
    \/ ResolveAirtime
    \/ ClassifyCall

SpecWebhook == InitWebhook /\ [][NextWebhook]_vars

InitFn ==
    /\ fn = "ready"
    /\ fnArgs = <<>>
    /\ fnOut = <<>>
    /\ IdleModifier /\ IdleResults /\ IdleURNs /\ IdleWebhook

NextResolver ==
    \/ PopNext
    \/ ResolveCall

SpecResolver == InitFn /\ [][NextResolver]_vars

NextNumbers ==
    \/ ToXNumberCall
    \/ ToIntegerCall

SpecNumbers == InitFn /\ [][NextNumbers]_vars

InitDict ==
    /\ fn = "ready"
    /\ fnArgs = <<[values |-> NewEmptyXDict, puts |-> 0, iteration |-> <<>>]>>
    /\ fnOut = <<>>
    /\ IdleModifier /\ IdleResults /\ IdleURNs /\ IdleWebhook

NextDict ==
    \/ PutCall
    \/ XDictToXTextCall

SpecDict == InitDict /\ [][NextDict]_vars

NextLocale ==
    \/ NewLocaleCall
    \/ ToPartsCall

SpecLocale == InitFn /\ [][NextLocale]_vars

InitSegments ==
    /\ fn = "loop"
    /\ \E p \in PathStrings : fnArgs = <<[input |-> p, rest |-> p]>>
    /\ fnOut = <<>>
    /\ IdleModifier /\ IdleResults /\ IdleURNs /\ IdleWebhook

NextSegments ==
    \/ PopStep
    \/ LoopExit

\* the loop is sequential code: an iteration that can run does run
SpecSegments ==
    InitSegments /\ [][NextSegments]_vars /\ WF_vars(NextSegments)

Init == InitModifier
Next == NextModifier
Spec == SpecModifier

(***************************************************************************)
(* Properties of NameModifier.Apply                                        *)
(***************************************************************************)
LastApply == applied[Len(applied)]

\* C1: applying the same modifier twice in a row to the same contact, the
\* second call returns changed=false and passes no event to the sink.
C1_ApplyIdempotent ==
    (Len(applied) = 2 /\ applied[1].modifier = applied[2].modifier)
        => (applied[2].changed = FALSE /\ applied[2].log = <<>>)

\* C2: a call that returns changed=true has passed exactly one event to the
\* sink, has stored the modifier's name truncated to the maximum value length,
\* and the event carries the stored name; no call passes more than one event.
C2_ChangedEmitsOneEvent ==
    \A i \in 1..Len(applied) :
        /\ Len(applied[i].log) <= 1
        /\ applied[i].changed =>
            /\ Len(applied[i].log) = 1
            /\ applied[i].after = Truncate(applied[i].modifier, applied[i].limit)
            /\ applied[i].log[1] = NewContactNameChanged(applied[i].after)
            /\ contactName = LastApply.after

\* C2 witness: a changing call whose name had to be truncated
C2_Witness ==
    /\ applied # <<>>
    /\ LastApply.changed
    /\ Len(LastApply.modifier) > LastApply.limit
    /\ contactName # LastApply.modifier

\* C3: a call that returns changed=false leaves the contact's name as it was
\* and passes no event to the sink.
C3_UnchangedIsNoop ==
    \A i \in 1..Len(applied) :
        ~applied[i].changed =>
            (applied[i].after = applied[i].before /\ applied[i].log = <<>>)

\* C3 witness: an unchanged call on a name longer than the maximum value length
C3_Witness ==
    /\ applied # <<>>
    /\ ~LastApply.changed
    /\ Len(contactName) > maxValueLength
    /\ contactName = LastApply.before

(***************************************************************************)
(* Properties of Results.Save / Results.Get                                *)
(***************************************************************************)
SavedKeys == {Snakify(saved[i].name) : i \in 1..Len(saved)}

LastSavedAt(key) ==
    saved[CHOOSE i \in 1..Len(saved) :
            /\ Snakify(saved[i].name) = key
            /\ \A j \in (i + 1)..Len(saved) : Snakify(saved[j].name) # key]

\* C4: after any sequence of Save calls, Get(snakify(name)) is the result most
\* recently saved under a name with that snake-cased form, and the keys of the
\* map are exactly the snake-cased forms of the saved names.
C4_LastWriteWins ==
    /\ DOMAIN results = SavedKeys
    /\ \A i \in 1..Len(saved) :
          Get(results, Snakify(saved[i].name)) = LastSavedAt(Snakify(saved[i].name))

\* C4 witness: two differently written names with one snake-cased form, the
\* second one retrievable
C4_Witness ==
    /\ Len(saved) = 2
    /\ saved[1].name # saved[2].name
    /\ Snakify(saved[1].name) = Snakify(saved[2].name)
    /\ Snakify(saved[2].name) # saved[2].name
    /\ Get(results, Snakify(saved[1].name)) = saved[2]

(***************************************************************************)
(* Properties of URNList.WithScheme                                        *)
(***************************************************************************)
MatchingIndexes(l, scheme) == {i \in 1..Len(l) : l[i].scheme = scheme}

\* the k-th smallest member of a set of indexes
KthIndex(I, k) == CHOOSE i \in I : Cardinality({j \in I : j <= i}) = k

\* C5: WithScheme returns exactly the entries whose scheme is the given one,
\* in their original relative order, and leaves the source list unchanged.
C5_WithSchemeFilters ==
    \A i \in 1..Len(filtered) :
        LET f == filtered[i]
            I == MatchingIndexes(f.before, f.scheme)
        IN /\ Len(f.matching) = Cardinality(I)
           /\ \A k \in 1..Len(f.matching) : f.matching[k] = f.before[KthIndex(I, k)]
           /\ urns = f.before

\* C5 witness: a mixed list filtered down to two different entries
C5_Witness ==
    /\ filtered # <<>>
    /\ Len(filtered[1].matching) = 2
    /\ filtered[1].matching[1] # filtered[1].matching[2]
    /\ Len(filtered[1].before) = 3
    /\ filtered[1].before[1].scheme # filtered[1].scheme
(***************************************************************************)
(* Properties of callStatus                                                *)
(***************************************************************************)
IsSuccessCode(code) == 200 <= code /\ code < 300

\* C6: callStatus takes the first matching rule: no response or a transport
\* error gives ConnectionError; else resthook mode with status 410 gives
\* SubscriberGone; else a status in [200,300) gives Success; else ResponseError.
C6_CallStatusFirstMatch ==
    \A i \in 1..Len(classified) :
        LET c == classified[i]
            noResponse == c.call.response = <<>>
            code == c.call.response[1]
        IN /\ (noResponse \/ c.err) => c.status = CallStatusConnectionError
           /\ (~noResponse /\ ~c.err /\ c.isResthook /\ code = 410)
                => c.status = CallStatusSubscriberGone
           /\ (~noResponse /\ ~c.err /\ ~(c.isResthook /\ code = 410) /\ IsSuccessCode(code))
                => c.status = CallStatusSuccess
           /\ (~noResponse /\ ~c.err /\ ~(c.isResthook /\ code = 410) /\ ~IsSuccessCode(code))
                => c.status = CallStatusResponseError

\* C6 witness: a 2xx response together with a transport error
C6_Witness ==
    /\ classified # <<>>
    /\ classified[1].call.response = <<200>>
    /\ classified[1].err
    /\ classified[1].status = CallStatusConnectionError

(***************************************************************************)
(* Properties of CallWebhookAction.Execute                                 *)
(***************************************************************************)
TraceKinds == {trace[i].kind : i \in 1..Len(trace)}
TraceAt(kind) == {i \in 1..Len(trace) : trace[i].kind = kind}
EventsOf(type) == {i \in 1..Len(run.events) : run.events[i].type = type}
Dispatched == "service_call" \in TraceKinds

\* the trimmed URL is empty, longer than 2048 code points, or does not parse
URLRejected ==
    \/ input.url.n = 0
    \/ input.url.n > 2048
    \/ ~input.url.parses

\* C7: when the trimmed URL is empty, longer than 2048 code points or does not
\* parse, Execute emits an error event and returns nil without resolving or
\* calling the webhook service, emitting a webhook-called event or saving a
\* result; a parsing URL of exactly 2048 code points is accepted.
C7_InvalidURLReturnsEarly ==
    pc = "executed" =>
        /\ URLRejected =>
            /\ ret = "nil"
            /\ run.events # <<>>
            /\ run.events[Len(run.events)].type = "error"
            /\ run.events[Len(run.events)].detail
                    \in {"webhook URL evaluated to empty string",
                         "webhook URL evaluated to an invalid URL"}
            /\ TraceKinds \subseteq {"event:error"}
            /\ EventsOf("webhook_called") = {}
            /\ run.results = NewResults
            /\ run.req = <<>>
        /\ (input.url.n = 2048 /\ input.url.parses /\ ValidMethod(ToUpper(input.method)))
            => "resolve_service" \in TraceKinds

\* C7 witness: a padded URL of 2049 code points that would parse
C7_Witness ==
    /\ pc = "executed"
    /\ input.url.n = 2049 /\ input.url.parses /\ input.url.pad = 1
    /\ run.events[Len(run.events)].detail = "webhook URL evaluated to an invalid URL"

\* the classification of what the service returned (the action never runs in
\* resthook mode)
OutcomeStatus ==
    IF input.outcome.call = <<>> \/ input.outcome.err THEN CallStatusConnectionError
    ELSE IF input.outcome.call[1].response = <<>> THEN CallStatusConnectionError
    ELSE IF IsSuccessCode(input.outcome.call[1].response[1]) THEN CallStatusSuccess
    ELSE CallStatusResponseError

ResultSavedWith(status) ==
    /\ Snakify(input.resultName) \in DOMAIN run.results
    /\ Get(run.results, Snakify(input.resultName)).name = input.resultName
    /\ Get(run.results, Snakify(input.resultName)).value = status

\* C8: whenever a result name is configured and the request is dispatched
\* through the webhook service, a result with that name is saved whose value
\* is the classification of the outcome, also when the service returns a
\* transport error and no call object.
C8_DispatchSavesResult ==
    (pc = "executed" /\ Dispatched /\ input.resultName # <<>>)
        => ResultSavedWith(OutcomeStatus)

NotConfigured ==
    [email |-> "no email service factory configured",
     webhook |-> "no webhook service factory configured",
     classification |-> "no classification service factory configured",
     ticket |-> "no ticket service factory configured",
     airtime |-> "no airtime service factory configured"]

\* C10: with no factory configured every accessor returns a nil service and
\* its 'no ... service factory configured' error; in the call-webhook action
\* that error becomes one error event, nothing is dispatched and Execute
\* returns nil.
C10_EmptyServicesFailClosed ==
    services = newEmptyServices =>
        /\ \A i \in 1..Len(svcResult) :
              /\ svcResult[i].svc = NoService
              /\ svcResult[i].err # NoError
              /\ svcResult[i].err = NotConfigured[svcResult[i].capability]
        /\ (pc = "executed" /\ "resolve_service" \in TraceKinds) =>
              /\ Cardinality({i \in EventsOf("error") :
                    run.events[i].detail = NotConfigured["webhook"]}) = 1
              /\ run.events[Len(run.events)].detail = NotConfigured["webhook"]
              /\ ~Dispatched
              /\ EventsOf("webhook_called") = {}
              /\ run.results = NewResults
              /\ ret = "nil"

\* C10 witness: Execute reached the service resolution with no factory configured
C10_Witness ==
    /\ services = newEmptyServices
    /\ pc = "executed"
    /\ "resolve_service" \in TraceKinds
    /\ input.resultName # <<>>
(***************************************************************************)
(* Properties of CallWebhookAction.Execute: failures and the request       *)
(***************************************************************************)
\* C11: for every method, URL, body, header configuration and service
\* outcome, Execute returns nil: operational failures become error events.
C11_ExecuteNeverReturnsError ==
    pc = "executed" => ret = "nil"

\* the headers the action is configured with, with their evaluated values
ConfiguredHeaders == {<<h.key, h.value>> : h \in input.headers}

\* C12: every header on the request handed to the webhook service is one of
\* the action's configured headers with its evaluated value, and the action
\* contacts no collaborator but the webhook service.
C12_RequestCarriesOnlyConfigured ==
    pc = "executed" =>
        /\ \A i \in 1..Len(run.req) : run.req[i].headers \subseteq ConfiguredHeaders
        /\ TraceKinds \subseteq {"event:error", "resolve_service", "service_call",
                                 "update_webhook", "event:webhook_called",
                                 "save_result"}
(***************************************************************************)
(* Properties of ResolveVariable and popNextVariable                       *)
(***************************************************************************)
Resolving == fn = "ResolveVariable"
Popping == fn = "popNextVariable"
Outcome == fnOut[1]
LastStep == Outcome.steps[Len(Outcome.steps)]

\* the integer a key spells, for the numeric keys of the paths
NumericKeys == {Key0, Key1, KeyMinus1, KeyMinus2}
KeyInteger(key) ==
    CASE key = Key0 -> 0 [] key = Key1 -> 1 [] key = KeyMinus1 -> -1 [] OTHER -> -2

\* C13: for an integer segment i on an indexable value of length n, i outside
\* [-n, n) gives an 'index out of range' error value without calling Index,
\* 0 <= i < n selects position i, -n <= i < 0 selects position n+i; Index is
\* never called with an argument outside [0, n).
C13_IndexWithinBounds ==
    Resolving =>
        \A k \in 1..Len(Outcome.steps) :
            LET step == Outcome.steps[k]
                n == Len(step.on.items)
                i == KeyInteger(step.key)
            IN /\ (step.how = "index") => (0 <= step.arg /\ step.arg < n)
               /\ (step.key \in NumericKeys /\ step.on.kind = "array") =>
                    /\ (i >= n \/ i < 0 - n) =>
                          /\ step.how = "range"
                          /\ k = Len(Outcome.steps)
                          /\ Outcome.status = "returned"
                          /\ Outcome.value = GoError("index out of range", step.key, "")
                    /\ (0 <= i /\ i < n) =>
                          /\ step.how = "index" /\ step.arg = i
                          /\ step.got = step.on.items[i + 1]
                    /\ (0 - n <= i /\ i < 0) =>
                          /\ step.how = "index" /\ step.arg = n + i
                          /\ step.got = step.on.items[n + i + 1]

\* C13 witness: a negative index in range, resolved from the end
C13_Witness ==
    /\ Resolving
    /\ Outcome.status = "returned"
    /\ \E k \in 1..Len(Outcome.steps) :
          /\ Outcome.steps[k].key = KeyMinus1
          /\ Outcome.steps[k].on = PairArray
          /\ Outcome.steps[k].got = GoString("y")

\* C14: every failure at a step of ResolveVariable is returned as an error
\* value: an error root as is, a nil value a 'key of nil' error, an unknown
\* key the resolver's own error, a value that is neither indexable (for an
\* integer segment) nor resolvable a type error naming its kind; only the
\* final check of the fully resolved value aborts.
C14_FailuresAreValues ==
    Resolving =>
        /\ fnArgs[1].root.kind = "error" => Outcome = Returned(fnArgs[1].root, <<>>)
        /\ \A k \in 1..Len(Outcome.steps) :
            LET step == Outcome.steps[k]
                last == k = Len(Outcome.steps) /\ Outcome.status = "returned"
            IN /\ step.on.kind = "nil" =>
                    /\ last
                    /\ Outcome.value = GoError("can't resolve key of nil", step.key, "")
               /\ (step.on.kind = "map"
                        /\ \A j \in 1..Len(step.on.keys) : step.on.keys[j] # step.key) =>
                    /\ last
                    /\ Outcome.value = GoError("no key in map", step.key, "")
               /\ (\/ step.on.kind \in {"string", "struct"}
                   \/ step.on.kind = "array" /\ step.key \notin NumericKeys) =>
                    /\ last
                    /\ Outcome.value = GoError("can't resolve key of type",
                                               step.key, step.on.kind)
        /\ Outcome.status = "panic" =>
            /\ Outcome.steps # <<>>
            /\ LastStep.how \in {"index", "resolve"}
            /\ LastStep.got.kind = "struct"

\* C14 witness: a type error after two successful steps
C14_Witness ==
    /\ Resolving
    /\ Len(Outcome.steps) = 3
    /\ Outcome.status = "returned"
    /\ Outcome.value.text = "can't resolve key of type"
    /\ Outcome.value.of = "string"

\* C15: for a path prefix["K"], popNextVariable yields K as one segment
\* whatever '.', '[' or ']' characters K contains.
C15_QuotedKeyIsOneSegment ==
    (Popping /\ Len(fnArgs[1].path) = 2
        /\ fnArgs[1].path[1].form = "bare" /\ fnArgs[1].path[2].form = "quoted")
        => fnOut[1].segments = <<fnArgs[1].path[1].key, fnArgs[1].path[2].key>>

\* the same path with every [i] written .i
DotNotation(p) ==
    [k \in 1..Len(p) |-> IF p[k].form = "bracket"
                         THEN [form |-> "dot", key |-> p[k].key] ELSE p[k]]

IndexNotationOnly(p) == \A k \in 1..Len(p) : p[k].form # "quoted"

\* C20: bracket and dot index notation resolve identically in any position
\* of a path, and '[0].bar' splits into the segments '0' and 'bar'.
C20_BracketEqualsDot ==
    /\ (Resolving /\ IndexNotationOnly(fnArgs[1].path)) =>
          LET dotted == ResolveVariable(fnArgs[1].root,
                                        RenderPath(DotNotation(fnArgs[1].path)))
          IN /\ Outcome.status = dotted.status
             /\ Outcome.value = dotted.value
    /\ (Popping /\ IndexNotationOnly(fnArgs[1].path)
            /\ fnArgs[1].path # <<>> /\ fnArgs[1].path[1].form # "dot") =>
          fnOut[1].segments = [k \in 1..Len(fnArgs[1].path) |-> fnArgs[1].path[k].key]

(***************************************************************************)
(* Properties of ToXNumber and ToInteger                                   *)
(***************************************************************************)
\* the text parses under the decimal grammar
ParsesAsDecimal(t) == NewFromString(t).ok

ConversionError == NewXErrorf("unable to convert to a number")

\* C16: ToXNumber returns a Number input unchanged with no error, the
\* parsed number with no error for a Text that matches the decimal grammar,
\* the zero number with a conversion error for unparsable text, booleans,
\* datetimes, arrays, dicts and nil, and the zero number with the error
\* itself for an Error input; the number is zero whenever the error is
\* non-nil.
C16_ToXNumberTotal ==
    fn = "ToXNumber" =>
        LET x == fnArgs[1]
            out == fnOut[1]
        IN  /\ x.kind = "number" => out.num = x /\ out.err = <<>>
            /\ x.kind = "text" /\ ParsesAsDecimal(x.text) =>
                /\ out.err = <<>>
                /\ out.num = NewXNumber(NewFromString(x.text).num)
            /\ x = NewXText(<<"a">>) => out.err = <<ConversionError>>
            /\ x = NewXText(<<"-", "1">>) =>
                out.num = NewXNumber(Decimal(TRUE, <<"1">>, 0))
            /\ x = NewXText(<<"1", ".", "0">>) =>
                out.num = NewXNumber(Decimal(FALSE, <<"1", "0">>, 0 - 1))
            /\ (\/ x.kind \in {"boolean", "datetime", "array", "dict", "nil"}
                \/ x.kind = "text" /\ ~ParsesAsDecimal(x.text)) =>
                out.num = XNumberZero /\ out.err = <<ConversionError>>
            /\ x.kind = "error" => out.num = XNumberZero /\ out.err = <<x>>
            /\ out.err # <<>> => out.num = XNumberZero

C16_Witness ==
    /\ fn = "ToXNumber"
    /\ fnArgs[1] = NewXText(<<"1", ".", "a">>)
    /\ fnOut[1].num = XNumberZero
    /\ fnOut[1].err = <<ConversionError>>

MaxInt32Digits == <<"2", "1", "4", "7", "4", "8", "3", "6", "4", "7">>
MinInt32Digits == <<"2", "1", "4", "7", "4", "8", "3", "6", "4", "8">>

\* a > b for two digit strings of the same length
RECURSIVE DigitsGreater(_, _)
DigitsGreater(a, b) ==
    IF a = <<>> THEN FALSE
    ELSE IF Head(a) = Head(b) THEN DigitsGreater(Tail(a), Tail(b))
    ELSE DecDigit(Head(a)) > DecDigit(Head(b))

\* the truncated integer part lies outside [-2^31, 2^31-1]
OutsideInt32(d) ==
    LET ds == rescale(d).digits
        limit == IF rescale(d).neg THEN MinInt32Digits ELSE MaxInt32Digits
    IN  \/ Len(ds) > Len(limit)
        \/ Len(ds) = Len(limit) /\ DigitsGreater(ds, limit)

\* the integer written by the digits, with the sign applied at every digit
RECURSIVE SignedValue(_, _, _)
SignedValue(neg, ds, acc) ==
    IF ds = <<>> THEN acc
    ELSE SignedValue(neg, Tail(ds),
                     IF neg THEN acc * 10 - DecDigit(Head(ds))
                     ELSE acc * 10 + DecDigit(Head(ds)))

RangeError == NewXErrorf("number value is out of range for an integer")

\* C17: for a number whose truncated integer part lies outside
\* [-2^31, 2^31-1], however large, ToInteger returns 0 and a range error;
\* for a number whose truncated integer part lies inside it, ToInteger
\* returns that integer part and no error.
C17_ToIntegerRange ==
    fn = "ToInteger" /\ fnArgs[1].kind = "number" =>
        LET d == fnArgs[1].num
            out == fnOut[1]
        IN  IF OutsideInt32(d)
            THEN out.int = 0 /\ out.err = <<RangeError>>
            ELSE /\ out.err = <<>>
                 /\ out.int = SignedValue(rescale(d).neg, rescale(d).digits, 0)

(***************************************************************************)
(* Properties of xdict.ToXText                                             *)
(***************************************************************************)
\* the text of one value of a dict: an error is written as its message
EntryText(v) ==
    IF v.kind = "error" THEN v.text
    ELSE IF v.kind = "number" THEN DecimalString(v.num)
    ELSE v.text

\* C18: the text of a dict has one 'key: value' entry per key, in ascending
\* key order, an error value written inline for its own key, and it is the
\* same whatever order the map yields its keys in.
C18_DictRendersSorted ==
    fn = "xdict.ToXText" =>
        LET values == fnArgs[1].values
            ascending == CHOOSE s \in KeyOrders(values) :
                             \A i, j \in DOMAIN s :
                                 i < j => StringLess(s[i], s[j])
            entries == [i \in DOMAIN ascending |->
                           ascending[i] \o <<": ">>
                               \o EntryText(values[ascending[i]])]
        IN  /\ fnOut[1] = <<"{">> \o Join(entries, <<", ">>) \o <<"}">>
            /\ \A other \in KeyOrders(values) :
                   xdictToXText(values, other) = fnOut[1]
            /\ (/\ DOMAIN values = {<<"a">>, <<"b">>}
                /\ values[<<"b">>] = NewXNumber(Decimal(FALSE, <<"1">>, 0))
                /\ values[<<"a">>] = NewXNumber(Decimal(FALSE, <<"2">>, 0))) =>
                   fnOut[1] = <<"{", "a", ": ", "2", ", ", "b", ": ", "1", "}">>

C18_Witness ==
    /\ fn = "xdict.ToXText"
    /\ Len(fnArgs[1].iteration) = 3
    /\ StringLess(fnArgs[1].iteration[2], fnArgs[1].iteration[1])
    /\ \E k \in DOMAIN fnArgs[1].values :
           fnArgs[1].values[k].kind = "error"
    /\ \E k \in DOMAIN fnArgs[1].values :
           fnArgs[1].values[k].kind # "error"

(***************************************************************************)
(* Properties of Locale                                                    *)
(***************************************************************************)
\* C19: NewLocale yields the empty locale for an empty language, the
\* language alone when no country is given and 'language-COUNTRY' when both
\* are given; ToParts of NewLocale(l, c) is (l, c) for every non-empty l,
\* and the empty locale splits into the empty language and country.
C19_LocaleRoundTrip ==
    /\ fn = "NewLocale" =>
        LET l == fnArgs[1].language
            c == fnArgs[1].country
            out == fnOut[1]
        IN  /\ l = <<>> => out.locale = <<>>
            /\ l # <<>> /\ c = <<>> => out.locale = l
            /\ l # <<>> /\ c # <<>> => out.locale = l \o <<"-">> \o c
            /\ l # <<>> => out.parts = [language |-> l, country |-> c]
            /\ l = <<>> => out.parts = [language |-> <<>>, country |-> <<>>]
    /\ fn = "ToParts" /\ fnArgs[1] = <<>> =>
        fnOut[1] = [language |-> <<>>, country |-> <<>>]

C19_Witness ==
    /\ fn = "NewLocale"
    /\ fnArgs[1] = [language |-> <<"e", "n", "g">>, country |-> <<"U", "S">>]
    /\ fnOut[1].locale = <<"e", "n", "g", "-", "U", "S">>
    /\ fnOut[1].parts = fnArgs[1]

(***************************************************************************)
(* Properties of the segment loop                                          *)
(***************************************************************************)
\* the last call of popNextVariable returned a rest shorter than its input
\* and, when it sliced the input, used bounds within it
PopWithinBounds ==
    fnOut # <<>> =>
        LET out == fnOut[1]
        IN  /\ Len(out.rest) < Len(out.in)
            /\ out.keyEnd # -1 =>
                /\ 0 <= out.keyStart
                /\ out.keyStart <= out.keyEnd
                /\ out.keyEnd <= Len(out.in)
                /\ 0 <= out.restStart
                /\ out.restStart <= Len(out.in)

\* C21: the segment loop of ResolveVariable terminates for every path
\* string, malformed ones included: every call of popNextVariable on a
\* non-empty input returns a strictly shorter rest, and its slice bounds
\* satisfy keyStart <= keyEnd within the input.
C21_SegmentLoopTerminates == []PopWithinBounds /\ <>(fn = "done")

C21_Witness ==
    /\ fn = "done"
    /\ fnArgs[1].input = <<"[", "[", "]", ".">>
    /\ fnOut # <<>>
    /\ fnOut[1].in = <<".">>

====
